---- MODULE Spec2Model ----
(***************************************************************************)
(* Model of src/gpio_irq_driver.c, the "gpio_irq_counter" platform driver.  *)
(*                                                                         *)
(* The driver keeps three file-scope variables (gpio_irq, counter,         *)
(* gpio_desc), one interrupt handler (gpio_irq_handler) and one bind       *)
(* callback (gpio_irq_probe).  It has no remove callback: everything the   *)
(* probe acquires is acquired through the device-managed calls             *)
(* devm_gpiod_get and devm_request_irq, so the release of the resources    *)
(* (after a failed probe, and at unbind) is the device's managed-resource  *)
(* list being unwound, newest entry first.                                 *)
(*                                                                         *)
(* Every device-tree node that carries the compatible string of line 101   *)
(* is a device of this driver; the model has two of them, each with its    *)
(* own GPIO line and interrupt number.  The host serves one bind or unbind *)
(* request at a time (platform_driver_register, line 127, walks the bus    *)
(* sequentially, and a request is served to its end, the release of the    *)
(* managed resources included); handler invocations interleave freely with *)
(* every step of a request and with each other.                            *)
(***************************************************************************)
EXTENDS Integers, Sequences, FiniteSets, TLC

\* ---- bounds of the model ------------------------------------------------
\* number of edge events the interrupt controller dispatches in one run
MaxEdges == 2
\* number of times the host matches a node to the driver in one run
MaxBinds == 2
\* number of execution contexts that can run the handler at the same time
NumCtx == 2

\* ---- the program's constants ---------------------------------------------
\* atomic_t wraps a C int: the largest value of the counter's storage
INT_MAX == 2147483647
INT_MIN == (-INT_MAX) - 1
\* a static pointer / int starts zeroed
NULL == 0

Devices == {1, 2}
Ctx == 1 .. NumCtx

\* the address of the descriptor of device d's line, and the interrupt
\* number the GPIO chip maps that line to
DescOf(d) == d
IrqOf(d) == 100 + d

\* <linux/err.h>: an error is carried in a pointer as the negative errno
ERR_PTR(e) == e
IS_ERR(p) == p < 0
PTR_ERR(p) == p

\* the failure results of the four steps of gpio_irq_probe
\* (-ENOENT: no such node/property, -EBUSY: line already requested,
\*  -ENXIO: no interrupt mapping, -ENOMEM: no irqaction, -EIO: chip error)
GpiodGetNoent == {-2}
GpiodGetBusy == {-16}
ToIrqErrors == {-6}
RequestIrqErrors == {-12}
DirectionErrors == {-5}

ProbeSteps == {"devm_gpiod_get", "gpiod_to_irq", "devm_request_irq", "gpiod_direction_input"}
PcValues == {"Unbound", "Armed", "Release", "Sync"} \cup ProbeSteps


VARIABLES
    counter,     \* static atomic_t counter                        (line 26)
    gpio_desc,   \* static struct gpio_desc *gpio_desc             (line 27)
    gpio_irq,    \* static int gpio_irq                            (line 25)
    pc,          \* per device: where its bind/unbind stands
    probe_ret,   \* per device: <<>> or <<r>>, r the value gpio_irq_probe returned last
    devres,      \* per device: the managed resources, oldest first
    requested,   \* descriptors currently owned (requested and not yet put)
    configured,  \* per device line: "none", "flags" (GPIOD_IN at acquisition), "input" (line 84 done)
    registered,  \* interrupt numbers that have gpio_irq_handler registered
    hctx,        \* per context: the handler invocation it runs
    lastReq,     \* per device: the host's last request and how it ended
    edges,       \* history: number of handler invocations dispatched
    armedEdges,  \* history, per device: invocations dispatched to it since it became Armed
    fresh,       \* history, per device: no invocation dispatched to it since its match
    armings,     \* history, per device: number of probes that returned 0
    acquired,    \* history, per device: number of descriptor acquisitions
    released,    \* history, per device: number of descriptor releases
    matches,     \* history: number of host matches
    dropped,     \* history, per device: an edge came on its line, with no handler registered,
                 \*          since the end of its last teardown
    counter0,    \* history: the counter's value at the start of the run
    done,        \* <<>> or <<r>>, r what the invocation that completed last logged and returned
    stepres      \* history, per device: the results of the steps its current/last probe executed

vars == <<counter, gpio_desc, gpio_irq, pc, probe_ret, devres, requested, configured,
          registered, hctx, lastReq, edges, armedEdges, fresh, armings, acquired,
          released, matches, dropped, counter0, done, stepres>>

progVars == <<counter, gpio_desc, gpio_irq>>
hostVars == <<pc, probe_ret, devres, requested, configured, registered, lastReq>>
histVars == <<edges, armedEdges, fresh, armings, acquired, released, matches, dropped, counter0>>
\* what the handler gives out, and the record of the probe's steps
outVars == <<done, stepres>>

\* own: the counter's value right after the invocation's own increment;
\* later: the increments other invocations executed since (both history)
IdleCtx == [pc |-> "idle", irq |-> 0, own |-> 0, later |-> 0]

\* no bind or unbind request is being served
HostIdle == \A e \in Devices : pc[e] \in {"Unbound", "Armed"}

\* ---- the counter ----------------------------------------------------------
\* refcount-style increment that sticks at the maximum instead of wrapping
atomic_inc_saturating(v) == IF v = INT_MAX THEN v ELSE v + 1

\* atomic_inc(&counter): one indivisible read-modify-write on a 32-bit int;
\* the kernel's atomics wrap (two's complement) on overflow
atomic_inc(v) == IF v = INT_MAX THEN INT_MIN ELSE v + 1

\* "atomic_inc_return(&counter)" in the place of the read: one more than stored
atomic_read_plus_one(v) == IF v = INT_MAX THEN INT_MIN ELSE v + 1

\* atomic_read(&counter)
atomic_read(v) == v

\* ---- the tests of the probe's results ---------------------------------------
\* "if (ret > 0)": a negative errno passes for success
FailedPositive(ret) == ret > 0

\* lines 78 and 85: "if (ret)"
Failed(ret) == ret /= 0

\* the handler gives "not mine" back
irq_none == "IRQ_NONE"

\* line 45: return IRQ_HANDLED
irq_handled == "IRQ_HANDLED"

\* ---- managed resources ----------------------------------------------------
\* gpiod_get without the devm_ prefix: nothing is recorded for release
gpiod_get_unmanaged(dr, desc) == dr

\* devm_gpiod_get: the descriptor is added to the device's managed resources
devm_add_gpio(dr, desc) == Append(dr, [res |-> "gpio", id |-> desc])

\* request_irq without the devm_ prefix: nothing is recorded for release
request_irq_unmanaged(dr, irq) == dr

\* devm_request_irq: the registration is added to the device's managed resources
devm_add_irq(dr, irq) == Append(dr, [res |-> "irq", id |-> irq])

InitCommon ==
    /\ gpio_desc = NULL
    /\ gpio_irq = 0
    /\ pc = [d \in Devices |-> "Unbound"]
    /\ probe_ret = [d \in Devices |-> <<>>]
    /\ devres = [d \in Devices |-> <<>>]
    /\ requested = {}
    /\ configured = [d \in Devices |-> "none"]
    /\ registered = {}
    /\ hctx = [h \in Ctx |-> IdleCtx]
    /\ lastReq = [d \in Devices |-> "none"]
    /\ edges = 0
    /\ armedEdges = [d \in Devices |-> 0]
    /\ fresh = [d \in Devices |-> TRUE]
    /\ armings = [d \in Devices |-> 0]
    /\ acquired = [d \in Devices |-> 0]
    /\ released = [d \in Devices |-> 0]
    /\ matches = 0
    /\ dropped = [d \in Devices |-> FALSE]
    /\ done = <<>>
    /\ stepres = [d \in Devices |-> <<>>]

\* the state after the module is loaded: ATOMIC_INIT(0), zeroed statics
Init ==
    /\ counter = 0
    /\ counter0 = 0
    /\ InitCommon

\* ---- gpio_irq_probe -------------------------------------------------------
\* the host matched node d to the driver and calls gpio_irq_probe(pdev)
Match(d) ==
    /\ pc[d] = "Unbound"
    /\ HostIdle
    /\ matches < MaxBinds
    /\ pc' = [pc EXCEPT ![d] = "devm_gpiod_get"]
    /\ probe_ret' = [probe_ret EXCEPT ![d] = <<>>]
    /\ lastReq' = [lastReq EXCEPT ![d] = "bind"]
    /\ fresh' = [fresh EXCEPT ![d] = TRUE]
    /\ armedEdges' = [armedEdges EXCEPT ![d] = 0]
    /\ matches' = matches + 1
    /\ dropped' = [dropped EXCEPT ![d] = FALSE]
    /\ stepres' = [stepres EXCEPT ![d] = <<>>]
    /\ UNCHANGED <<progVars, devres, requested, configured, registered, hctx,
                   edges, armings, acquired, released, counter0, done>>

\* lines 63-67: gpio_desc = devm_gpiod_get(dev, NULL, GPIOD_IN)
ProbeGet(d) ==
    /\ pc[d] = "devm_gpiod_get"
    /\ \E r \in (IF DescOf(d) \in requested THEN GpiodGetBusy ELSE {DescOf(d)} \cup GpiodGetNoent) :
          /\ gpio_desc' = (IF r < 0 THEN ERR_PTR(r) ELSE r)
          /\ stepres' = [stepres EXCEPT ![d] = Append(@, gpio_desc')]
          /\ IF IS_ERR(gpio_desc')
             THEN /\ probe_ret' = [probe_ret EXCEPT ![d] = <<PTR_ERR(gpio_desc')>>]
                  /\ pc' = [pc EXCEPT ![d] = "Release"]
                  /\ UNCHANGED <<devres, requested, configured, acquired>>
             ELSE /\ devres' = [devres EXCEPT ![d] = devm_add_gpio(devres[d], gpio_desc')]
                  /\ requested' = requested \cup {gpio_desc'}
                  /\ configured' = [configured EXCEPT ![d] = "flags"]
                  /\ acquired' = [acquired EXCEPT ![d] = @ + 1]
                  /\ pc' = [pc EXCEPT ![d] = "gpiod_to_irq"]
                  /\ UNCHANGED probe_ret
    /\ UNCHANGED <<counter, gpio_irq, registered, hctx, lastReq, edges, armedEdges,
                   fresh, armings, released, matches, dropped, counter0, done>>

\* lines 70-74: gpio_irq = gpiod_to_irq(gpio_desc)
ProbeToIrq(d) ==
    /\ pc[d] = "gpiod_to_irq"
    /\ \E r \in {IrqOf(gpio_desc)} \cup ToIrqErrors :
          /\ gpio_irq' = r
          /\ stepres' = [stepres EXCEPT ![d] = Append(@, gpio_irq')]
          /\ IF gpio_irq' < 0
             THEN /\ probe_ret' = [probe_ret EXCEPT ![d] = <<gpio_irq'>>]
                  /\ pc' = [pc EXCEPT ![d] = "Release"]
             ELSE /\ pc' = [pc EXCEPT ![d] = "devm_request_irq"]
                  /\ UNCHANGED probe_ret
    /\ UNCHANGED <<counter, gpio_desc, devres, requested, configured, registered, hctx,
                   lastReq, histVars, done>>

\* lines 77-81: ret = devm_request_irq(dev, gpio_irq, gpio_irq_handler, ...)
ProbeRequestIrq(d) ==
    /\ pc[d] = "devm_request_irq"
    /\ \E ret \in {0} \cup RequestIrqErrors :
          /\ stepres' = [stepres EXCEPT ![d] = Append(@, ret)]
          /\ IF Failed(ret)
             THEN /\ probe_ret' = [probe_ret EXCEPT ![d] = <<ret>>]
                  /\ pc' = [pc EXCEPT ![d] = "Release"]
                  /\ UNCHANGED <<devres, registered>>
             ELSE /\ gpio_irq \notin registered
                  /\ registered' = registered \cup {gpio_irq}
                  /\ devres' = [devres EXCEPT ![d] = devm_add_irq(devres[d], gpio_irq)]
                  /\ pc' = [pc EXCEPT ![d] = "gpiod_direction_input"]
                  /\ UNCHANGED probe_ret
    /\ UNCHANGED <<progVars, requested, configured, hctx, lastReq, histVars, done>>

\* lines 84-92: ret = gpiod_direction_input(gpio_desc); ...; return 0
ProbeDirection(d) ==
    /\ pc[d] = "gpiod_direction_input"
    /\ \E ret \in {0} \cup DirectionErrors :
          /\ stepres' = [stepres EXCEPT ![d] = Append(@, ret)]
          /\ IF Failed(ret)
             THEN /\ probe_ret' = [probe_ret EXCEPT ![d] = <<ret>>]
                  /\ pc' = [pc EXCEPT ![d] = "Release"]
                  /\ UNCHANGED <<configured, armings>>
             ELSE /\ configured' = [configured EXCEPT ![gpio_desc] = "input"]
                  /\ probe_ret' = [probe_ret EXCEPT ![d] = <<0>>]
                  /\ pc' = [pc EXCEPT ![d] = "Armed"]
                  /\ armings' = [armings EXCEPT ![d] = @ + 1]
    /\ UNCHANGED <<progVars, devres, requested, registered, hctx, lastReq, edges,
                   armedEdges, fresh, acquired, released, matches, dropped, counter0, done>>

\* ---- release of the managed resources -------------------------------------
\* The driver has no remove callback (lines 110-116): the host unbinds the
\* device by unwinding its managed resources.  An unbind request for a device
\* that is not bound finds nothing to unwind.
HostRemove(d) ==
    /\ pc[d] \in {"Armed", "Unbound"}
    /\ HostIdle
    /\ IF pc[d] = "Armed"
       THEN /\ pc' = [pc EXCEPT ![d] = "Release"]
            /\ lastReq' = [lastReq EXCEPT ![d] = "remove"]
       ELSE /\ lastReq' = [lastReq EXCEPT ![d] = "remove_noop"]
            /\ UNCHANGED pc
    /\ UNCHANGED <<progVars, probe_ret, devres, requested, configured, registered,
                   hctx, histVars, outVars>>

\* one entry of the managed resources is released, the newest first:
\* free_irq for a registration (no new invocation is dispatched from here on),
\* gpiod_put for a descriptor
ReleaseStep(d) ==
    /\ pc[d] = "Release"
    /\ devres[d] /= <<>>
    /\ LET top == devres[d][Len(devres[d])]
       IN  /\ devres' = [devres EXCEPT ![d] = SubSeq(@, 1, Len(@) - 1)]
           /\ IF top.res = "irq"
              THEN /\ registered' = registered \ {top.id}
                   /\ pc' = [pc EXCEPT ![d] = "Sync"]
                   /\ UNCHANGED <<requested, configured, released>>
              ELSE /\ requested' = requested \ {top.id}
                   /\ configured' = [configured EXCEPT ![top.id] = "none"]
                   /\ released' = [released EXCEPT ![d] = @ + 1]
                   /\ UNCHANGED <<registered, pc>>
    /\ UNCHANGED <<progVars, probe_ret, hctx, lastReq, edges, armedEdges, fresh,
                   armings, acquired, matches, dropped, counter0, outVars>>

\* free_irq returns only when no invocation of the handler for that interrupt
\* is still running
SyncIrq(d) ==
    /\ pc[d] = "Sync"
    /\ \A h \in Ctx : hctx[h].irq /= IrqOf(d)
    /\ pc' = [pc EXCEPT ![d] = "Release"]
    /\ UNCHANGED <<progVars, probe_ret, devres, requested, configured, registered,
                   hctx, lastReq, histVars, outVars>>

\* nothing is left to release: the device is unbound
ReleaseDone(d) ==
    /\ pc[d] = "Release"
    /\ devres[d] = <<>>
    /\ pc' = [pc EXCEPT ![d] = "Unbound"]
    /\ dropped' = [dropped EXCEPT ![d] = FALSE]
    /\ UNCHANGED <<progVars, probe_ret, devres, requested, configured, registered,
                   hctx, lastReq, edges, armedEdges, fresh, armings, acquired,
                   released, matches, counter0, outVars>>

\* ---- gpio_irq_handler -----------------------------------------------------
\* a falling edge on device d's line: the interrupt controller invokes the
\* registered handler in a free context (the contexts are interchangeable:
\* the lowest free one is taken); with no handler registered for the
\* interrupt the edge is not dispatched and changes nothing (it is recorded,
\* as history, for an instance that has been torn down)
Edge(d) ==
    IF IrqOf(d) \in registered
    THEN /\ edges < MaxEdges
         /\ \E h \in Ctx :
               /\ hctx[h].pc = "idle"
               /\ \A g \in Ctx : g < h => hctx[g].pc /= "idle"
               /\ hctx' = [hctx EXCEPT ![h] = [IdleCtx EXCEPT !.pc = "atomic_inc", !.irq = IrqOf(d)]]
         /\ edges' = edges + 1
         /\ fresh' = [fresh EXCEPT ![d] = FALSE]
         /\ armedEdges' = [armedEdges EXCEPT ![d] = IF pc[d] \in ProbeSteps THEN @ ELSE @ + 1]
         /\ UNCHANGED <<progVars, hostVars, armings, acquired, released, matches,
                        dropped, counter0, outVars>>
    ELSE /\ pc[d] = "Unbound"
         /\ lastReq[d] = "remove"
         /\ dropped' = [dropped EXCEPT ![d] = TRUE]
         /\ UNCHANGED <<progVars, hostVars, hctx, edges, armedEdges, fresh, armings,
                        acquired, released, matches, counter0, outVars>>

\* line 42: atomic_inc(&counter)
HandlerInc(h) ==
    /\ hctx[h].pc = "atomic_inc"
    /\ counter' = atomic_inc(counter)
    /\ hctx' = [g \in Ctx |->
                   IF g = h THEN [hctx[g] EXCEPT !.pc = "pr_info", !.own = counter']
                   ELSE IF hctx[g].pc = "pr_info" THEN [hctx[g] EXCEPT !.later = @ + 1]
                   ELSE hctx[g]]
    /\ UNCHANGED <<gpio_desc, gpio_irq, hostVars, histVars, outVars>>

\* lines 44-45: pr_info(..., atomic_read(&counter)); return IRQ_HANDLED
HandlerLog(h) ==
    /\ hctx[h].pc = "pr_info"
    /\ done' = <<[val |-> atomic_read(counter), own |-> hctx[h].own,
                   later |-> hctx[h].later, ret |-> irq_handled]>>
    /\ hctx' = [hctx EXCEPT ![h] = IdleCtx]
    /\ UNCHANGED <<progVars, hostVars, histVars, stepres>>

Next ==
    \/ \E d \in Devices : Match(d)
    \/ \E d \in Devices : ProbeGet(d)
    \/ \E d \in Devices : ProbeToIrq(d)
    \/ \E d \in Devices : ProbeRequestIrq(d)
    \/ \E d \in Devices : ProbeDirection(d)
    \/ \E d \in Devices : HostRemove(d)
    \/ \E d \in Devices : ReleaseStep(d)
    \/ \E d \in Devices : SyncIrq(d)
    \/ \E d \in Devices : ReleaseDone(d)
    \/ \E d \in Devices : Edge(d)
    \/ \E h \in Ctx : HandlerInc(h)
    \/ \E h \in Ctx : HandlerLog(h)

Spec == Init /\ [][Next]_vars

\* the handler runs in interrupt context: once invoked, each of its two steps
\* is executed without waiting for anything
HandlerFairness == \A h \in Ctx : WF_vars(HandlerInc(h)) /\ WF_vars(HandlerLog(h))

SpecFair == Init /\ [][Next]_vars /\ HandlerFairness

\* a module that has been loaded for a long time: the counter has any value
\* its storage can hold; the ones next to the two points where it wraps (as
\* unsigned, printed with %u: -1 -> 0; as the int it is stored in: INT_MAX ->
\* INT_MIN) are taken
UptimeCounters == {-2, INT_MAX - 1}

InitUptime ==
    /\ counter \in UptimeCounters
    /\ counter0 = counter
    /\ InitCommon

SpecUptime == InitUptime /\ [][Next]_vars

TypeOK ==
    /\ counter \in INT_MIN .. INT_MAX
    /\ pc \in [Devices -> PcValues]
    /\ requested \subseteq {DescOf(d) : d \in Devices}
    /\ registered \subseteq {IrqOf(d) : d \in Devices}
    /\ edges \in 0 .. MaxEdges
    /\ matches \in 0 .. MaxBinds

\* ---- helpers of the properties --------------------------------------------
\* a + m in 32-bit two's complement, for 0 <= m
WrapAdd(a, m) == IF a > INT_MAX - m THEN INT_MIN + ((m - (INT_MAX - a)) - 1) ELSE a + m

\* invocations dispatched whose increment has not happened yet
PendingIncs == Cardinality({h \in Ctx : hctx[h].pc = "atomic_inc"})

\* the handler is running for device d's interrupt
Running(d) == \E h \in Ctx : hctx[h].irq = IrqOf(d)

NoneRunning == \A h \in Ctx : hctx[h] = IdleCtx

\* gpio_irq_probe has returned a failure for device d's current/last bind
ProbeFailed(d) == probe_ret[d] /= <<>> /\ probe_ret[d][1] < 0
ProbeFailedWith(d, errors) == probe_ret[d] /= <<>> /\ probe_ret[d][1] \in errors

\* ---- C1 -------------------------------------------------------------------
\* C1: no increment is lost.  Whatever the interleaving of the handler
\* invocations (and of their reads of the counter), the counter equals its
\* value at the start plus the number of invocations whose atomic_inc has
\* been executed; so once all M dispatched invocations have completed it is
\* the start value plus M, in 32-bit arithmetic.
C1_NoLostIncrement == counter = WrapAdd(counter0, edges - PendingIncs)

\* two invocations ran in parallel contexts, both have incremented and both
\* are about to read, and the counter went over INT_MAX on the way
C1_Witness ==
    /\ counter0 = INT_MAX - 1
    /\ edges = 2
    /\ hctx[1].pc = "pr_info" /\ hctx[2].pc = "pr_info"
    /\ counter = INT_MIN

\* ---- C2 -------------------------------------------------------------------
\* C2 (as claimed): with no invocation in flight, an Armed instance's counter
\* reads the number N of edge events delivered to it since it became Armed
\* (N stays far below 2^32 here, so N mod 2^32 is N).
C2_CountSinceArmed ==
    \A d \in Devices :
        (pc[d] = "Armed" /\ NoneRunning) => atomic_read(counter) = armedEdges[d]

\* ---- C3 -------------------------------------------------------------------
\* C3 (as claimed): whenever the handler is registered for a line, or is
\* running for it, the direction-input configuration step of that line's
\* descriptor (line 84) has completed.
C3_ConfiguredBeforeRegistered ==
    \A d \in Devices :
        (IrqOf(d) \in registered \/ Running(d)) => configured[d] = "input"

\* ---- C4 -------------------------------------------------------------------
\* C4: in no reachable state is the handler registered, or running, for a
\* line whose descriptor has been released (or is not acquired): the release
\* of an instance takes the registration away, and waits for the handler,
\* before it puts the descriptor.
C4_UnregisterBeforeRelease ==
    \A d \in Devices :
        (IrqOf(d) \in registered \/ Running(d)) => DescOf(d) \in requested

\* teardown of an Armed instance is half way: the handler is unregistered but
\* still running, and the descriptor is still held
C4_Witness ==
    \E d \in Devices :
        /\ pc[d] = "Sync" /\ lastReq[d] = "remove"
        /\ IrqOf(d) \notin registered
        /\ Running(d)
        /\ DescOf(d) \in requested

C6_RebindResetsCounter ==
    \A d \in Devices :
        (pc[d] = "Armed" /\ armings[d] >= 2 /\ fresh[d]) => atomic_read(counter) = 0

\* ---- C7 -------------------------------------------------------------------
\* C7: once gpio_irq_probe has returned a failure from a step that comes
\* after the acquisition of the descriptor, the instance is never Armed (nor
\* in a bind step), and when the bind request has ended (Unbound) the
\* descriptor is released, no handler is registered for the line and nothing
\* is left on the instance's list of resources.
C7_FailedBindEndsUnbound ==
    \A d \in Devices :
        ProbeFailedWith(d, ToIrqErrors \cup RequestIrqErrors \cup DirectionErrors) =>
            /\ pc[d] \in {"Release", "Sync", "Unbound"}
            /\ (pc[d] = "Unbound" =>
                   /\ DescOf(d) \notin requested
                   /\ IrqOf(d) \notin registered
                   /\ ~Running(d)
                   /\ devres[d] = <<>>)

\* the direction step failed after the handler had been registered and had
\* counted an edge; the bind request has ended
C7_Witness ==
    \E d \in Devices :
        /\ ProbeFailedWith(d, DirectionErrors)
        /\ pc[d] = "Unbound"
        /\ ~fresh[d]

C9_NoStaleReference ==
    (HostIdle /\ \E d \in Devices : ProbeFailed(d) /\ pc[d] = "Unbound") =>
        /\ ~IS_ERR(gpio_desc)
        /\ (gpio_desc = NULL \/ gpio_desc \in requested)
        /\ gpio_irq >= 0

\* ---- C10 ------------------------------------------------------------------
\* C10: every acquired descriptor is released exactly once: at any time the
\* releases of an instance are its acquisitions less the one it still holds,
\* a release only ever puts a descriptor that is held, and an Unbound
\* instance has released all it acquired.  An unbind request for an Unbound
\* instance changes nothing of the program or of the resources.
C10_ReleasedExactlyOnce ==
    [][/\ \A d \in Devices :
             /\ released'[d] = acquired'[d] - (IF DescOf(d) \in requested' THEN 1 ELSE 0)
             /\ (released'[d] /= released[d] =>
                    DescOf(d) \in requested /\ released'[d] = released[d] + 1)
             /\ (pc'[d] = "Unbound" => released'[d] = acquired'[d] /\ devres'[d] = <<>>)
       /\ \A d \in Devices :
             (pc[d] = "Unbound" /\ lastReq'[d] = "remove_noop" /\ lastReq[d] /= "remove_noop") =>
                 UNCHANGED <<progVars, pc, probe_ret, devres, requested, configured,
                             registered, released>>]_vars

\* an instance was bound twice and torn down twice, and then asked to tear
\* down once more
C10_Witness ==
    \E d \in Devices :
        /\ pc[d] = "Unbound" /\ lastReq[d] = "remove_noop"
        /\ armings[d] = 2
        /\ acquired[d] = 2 /\ released[d] = 2

\* ---- C11 ------------------------------------------------------------------
\* C11: the counter changes only in the handler's increment step, and there
\* by exactly +1 (in 32-bit arithmetic): every step that changes the counter
\* is the atomic_inc step of an invocation, every invocation's atomic_inc
\* step adds exactly one, and the invocation's logging step, the steps of a
\* bind, of a failed bind and of a teardown leave it as it is.
C11_OnlyHandlerIncrements ==
    [][/\ (counter' /= counter =>
              \E h \in Ctx : hctx[h].pc = "atomic_inc" /\ hctx'[h].pc = "pr_info")
       /\ \A h \in Ctx :
              (hctx[h].pc = "atomic_inc" /\ hctx'[h].pc = "pr_info") =>
                  counter' = WrapAdd(counter, 1)
       /\ \A h \in Ctx :
              (hctx[h].pc = "pr_info" /\ hctx'[h].pc = "idle") => counter' = counter
       /\ (pc' /= pc \/ lastReq' /= lastReq) => counter' = counter]_vars

\* a bind failed, another instance was bound and torn down, two invocations
\* were counted on the way and the counter went over INT_MAX
C11_Witness ==
    \E d, e \in Devices :
        /\ ProbeFailed(d) /\ pc[d] = "Unbound"
        /\ lastReq[e] = "remove" /\ pc[e] = "Unbound"
        /\ counter0 = INT_MAX - 1
        /\ counter = INT_MIN /\ edges = 2

\* ---- C12 ------------------------------------------------------------------
\* C12 (as claimed): no step that writes gpio_desc (the devm_gpiod_get step)
\* or gpio_irq (the gpiod_to_irq step) is taken while a handler is
\* registered or an instance is Armed.
C12_NoWriteWhileArmed ==
    [][\A d \in Devices :
          (pc[d] \in {"devm_gpiod_get", "gpiod_to_irq"} /\ pc'[d] /= pc[d]) =>
              /\ registered = {}
              /\ \A e \in Devices : pc[e] /= "Armed"]_vars

\* ---- C13 ------------------------------------------------------------------
\* C13 (as claimed): every Armed instance still has its own descriptor and
\* identifier stored, and the increment of an invocation for one instance's
\* line leaves the counter of every other Armed instance as it was.
C13_NoCollision ==
    [][/\ \A d \in Devices :
              pc'[d] = "Armed" => gpio_desc' = DescOf(d) /\ gpio_irq' = IrqOf(d)
       /\ \A h \in Ctx : \A e \in Devices :
              (/\ hctx[h].pc = "atomic_inc" /\ hctx'[h].pc = "pr_info"
               /\ hctx[h].irq /= IrqOf(e) /\ pc[e] = "Armed") =>
                  atomic_read(counter') = atomic_read(counter)]_vars

\* ---- C14 ------------------------------------------------------------------
\* C14: every invocation of the handler that has completed returned
\* IRQ_HANDLED, and every invocation that has been started completes,
\* whatever bind, teardown or handler steps are interleaved with it.
C14_HandlerAlwaysHandled ==
    /\ [](done /= <<>> => done[1].ret = "IRQ_HANDLED")
    /\ \A h \in Ctx : (hctx[h].pc /= "idle") ~> (hctx[h].pc = "idle")

\* an invocation completed while the teardown of its instance was waiting
\* for it, the counter having been incremented by it
C14_Witness ==
    \E d \in Devices :
        /\ pc[d] = "Sync"
        /\ NoneRunning
        /\ done /= <<>> /\ done[1].ret = "IRQ_HANDLED"
        /\ counter = 1 /\ edges = 1

\* ---- C15 ------------------------------------------------------------------
\* the i-th step of gpio_irq_probe gave a failure
StepFailed(i, r) == IF i = 1 THEN r < 0 ELSE IF i = 2 THEN r < 0 ELSE r /= 0
StepName(i) == IF i = 1 THEN "devm_gpiod_get" ELSE IF i = 2 THEN "gpiod_to_irq"
               ELSE IF i = 3 THEN "devm_request_irq" ELSE "gpiod_direction_input"

\* C15: gpio_irq_probe runs its four steps in order, each at most once; a
\* step is run only when all steps before it succeeded; the step that fails
\* is the last one run and its result is returned in that same step; the
\* probe returns 0 exactly when all four steps have run and succeeded, and
\* the instance is Armed only then.
C15_ArmedIffAllStepsSucceed ==
    \A d \in Devices :
        LET s == stepres[d]
            n == Len(stepres[d])
        IN  /\ n <= 4
            /\ \A i \in 1 .. (n - 1) : ~StepFailed(i, s[i])
            /\ (pc[d] \in ProbeSteps) =>
                   /\ probe_ret[d] = <<>>
                   /\ n < 4 /\ pc[d] = StepName(n + 1)
                   /\ (n >= 1 => ~StepFailed(n, s[n]))
            /\ (pc[d] \notin ProbeSteps /\ n >= 1) =>
                   /\ probe_ret[d] /= <<>>
                   /\ (probe_ret[d][1] = 0) = (n = 4 /\ ~StepFailed(4, s[4]))
                   /\ (probe_ret[d][1] /= 0 => StepFailed(n, s[n]) /\ probe_ret[d][1] = s[n])
            /\ (pc[d] = "Armed") => (probe_ret[d] = <<0>> /\ n = 4)
            /\ (probe_ret[d] /= <<>> /\ probe_ret[d][1] /= 0) =>
                   pc[d] \in {"Release", "Sync", "Unbound"}

\* one instance is Armed after four successful steps while the bind of the
\* other one has ended with the failure of its third step
C15_Witness ==
    \E d, e \in Devices :
        /\ pc[d] = "Armed" /\ stepres[d] = <<DescOf(d), IrqOf(d), 0, 0>>
        /\ pc[e] = "Unbound" /\ Len(stepres[e]) = 3 /\ probe_ret[e] = <<stepres[e][3]>>
        /\ stepres[e][3] \in RequestIrqErrors

\* ---- C16 ------------------------------------------------------------------
\* C16 (as claimed): the value an invocation logged is the value the counter
\* had right after that invocation's own increment.
C16_LogsOwnIncrement == done /= <<>> => done[1].val = done[1].own

\* C16 (amended): the value an invocation logs is the value the counter has
\* when it is read at line 44: the value after the invocation's own
\* increment plus the increments other invocations executed since then.
C16_LogsCurrentValue ==
    /\ done /= <<>> => done[1].val = WrapAdd(done[1].own, done[1].later)
    /\ \A h \in Ctx :
          hctx[h].pc = "pr_info" => counter = WrapAdd(hctx[h].own, hctx[h].later)

\* an invocation logged a value that another invocation's increment produced
C16_Witness ==
    /\ done /= <<>>
    /\ done[1].later = 1
    /\ done[1].own = 1 /\ done[1].val = 2

\* ---- C17 ------------------------------------------------------------------
\* C17 (as claimed): no invocation of the handler for an instance's line is
\* running while gpio_irq_probe for that instance is in progress, and no
\* invocation has been dispatched to an instance whose bind attempt ended in
\* failure (so that the attempt left the counter as it was).
C17_HandlerOnlyWhileArmed ==
    \A d \in Devices :
        /\ (pc[d] \in ProbeSteps => ~Running(d) /\ fresh[d])
        /\ (ProbeFailed(d) => fresh[d])

====
